---- MODULE Spec2Model ----
(***************************************************************************)
(* Model of the vehicle-routing solver (class VRPSolver and generate() of  *)
(* the worker) and of the CoordInput form component.                       *)
(*                                                                         *)
(* Units.  Distances are whole kilometres.  Times are counted in units of  *)
(* 1/DRIVE_SPEED hour, so that distance / DRIVE_SPEED is exact: a drive of *)
(* d km lasts d time units and h hours are Hours(h) = h * DRIVE_SPEED      *)
(* units.  Fitness is kept as the numerator of the source's quotient (see  *)
(* getFitness); the divisor weightTime + weightDistance is positive and    *)
(* fixed during one solve, so the order of fitness values is the source's. *)
(*                                                                         *)
(* JavaScript arrays are sequences; a source index i is position i + 1.    *)
(***************************************************************************)
EXTENDS Integers, Sequences, FiniteSets, TLC

\* ---- bounds of the model ------------------------------------------------
\* Largest number of stops a PlanInput carries.
MaxStops == 2
\* The solver's private configuration, scaled down from the source's
\* defaults (driverNum 10, individualNum 100, selectedNum 50, iterNum 200).
driverNum == 3
individualNum == 3
selectedNum == 2
iterNum == 2
\* The warehouse lies WarehouseKm km east of the prime meridian on the
\* equator, stop k lies k * StopSpacing km east of the warehouse.
WarehouseKm == 0
StopSpacing == 100
\* Largest magnitude typed into a CoordInput number field.
MaxMagnitude == 3
\* Largest route distance given to getRouteTime on its own.
MaxDistance == 900

\* ---- program constants --------------------------------------------------
DRIVE_SPEED == 50

VARIABLES
  \* VRPSolver / generate
  pc,              \* position of the worker: "constructed", "solve", "done"
                   \* ("idle" where no solver exists)
  stops,           \* this.stops: the stop coordinates
  weightTime,      \* this.weightTime
  weightDistance,  \* this.weightDistance
  population,      \* this.population
  i,               \* loop counter of solve()
  result,          \* the VRPSolve value returned by solve(), <<>> before
  \* CoordInput
  longitude,       \* useState(0)
  latitude,        \* useState(0)
  longitudeType,   \* useState('E')
  latitudeType,    \* useState('N')
  emitted,         \* the Coord last passed to onChange, <<>> before any
  \* getRouteTime on its own
  tDistance,       \* the argument
  tElapsed         \* the value returned, <<>> before the call

solverVars == <<pc, stops, weightTime, weightDistance, population, i, result>>
coordVars == <<longitude, latitude, longitudeType, latitudeType, emitted>>
timeVars == <<tDistance, tElapsed>>
vars == <<solverVars, coordVars, timeVars>>

\* ---- JavaScript values and array helpers -------------------------------
Null == [kind |-> "null"]
Number(x) == [kind |-> "number", val |-> x]
\* ToNumber coercion of arithmetic: null becomes 0.
ToNumber(v) == IF v.kind = "null" THEN 0 ELSE v.val

Abs(x) == IF x < 0 THEN -x ELSE x
Min(a, b) == IF a < b THEN a ELSE b

\* Array.prototype.slice(start, end) for 0 <= start.
Slice(array, start, end) == SubSeq(array, start + 1, Min(end, Len(array)))

\* array.reduce((a, b) => a + b, 0)
RECURSIVE SumSeq(_)
SumSeq(s) == IF Len(s) = 0 THEN 0 ELSE s[1] + SumSeq(Tail(s))

\* ---- radash -------------------------------------------------------------
\* range(startOrLength, end, valueOrMapper): start is 0 when end is falsy;
\* the numbers start..end are yielded, each through the mapper.
\* Range is the call with the default mapper i => i.
Range(startOrLength, end) ==
  LET start == IF end # 0 THEN startOrLength ELSE 0
      final == end
      n == IF start <= final THEN final - start + 1 ELSE 0
  IN  [k \in 1..n |-> start + k - 1]

\* The call with a value in place of the mapper: the value each time.
RangeValue(startOrLength, end, value) ==
  [k \in 1..Len(Range(startOrLength, end)) |-> value]

\* shuffle(array): sorting by random keys, any arrangement may come out.
Without(array, k) == SubSeq(array, 1, k - 1) \o SubSeq(array, k + 1, Len(array))

RECURSIVE Shuffle(_)
Shuffle(array) ==
  IF Len(array) = 0 THEN {<<>>}
  ELSE UNION { {<<array[k]>> \o rest : rest \in Shuffle(Without(array, k))} :
               k \in {j \in 1..Len(array) :
                        \A h \in 1..(j - 1) : array[h] # array[j]} }

\* max(array): boil() is null for an empty array, else the largest item.
RadashMax(array) ==
  IF Len(array) = 0 THEN Null
  ELSE Number(CHOOSE m \in {array[k] : k \in 1..Len(array)} :
                \A k \in 1..Len(array) : array[k] <= m)

\* sort(array, getter, true): array.slice().sort((a, b) => getter(b) -
\* getter(a)); Array.prototype.sort is stable.  keys[k] is getter(array[k]).
SortDesc(array, keys) ==
  LET n == Len(array)
      rank(j) == 1 + Cardinality({k \in 1..n :
                        \/ keys[k] > keys[j]
                        \/ keys[k] = keys[j] /\ k < j})
  IN  [r \in 1..n |-> array[CHOOSE j \in 1..n : rank(j) = r]]

\* ---- geometry and cost model -------------------------------------------
\* A Coord is a point of the equator, given by its distance in km east of
\* the prime meridian; there the haversine formula is R * |delta lon|.
haversineDistance(coord1, coord2) == Abs(coord2 - coord1)

warehouse == WarehouseKm

\* this.coords = [warehouse, ...stops]
coords == <<warehouse>> \o stops

getDistanceBetweenCoords(coord1, coord2) == haversineDistance(coord1, coord2)

getRouteDistance(route) ==
  LET fullRoute == <<0>> \o route \o <<0>>
  IN  SumSeq([k \in 1..(Len(fullRoute) - 1) |->
        getDistanceBetweenCoords(coords[fullRoute[k] + 1],
                                 coords[fullRoute[k + 1] + 1])])

Hours(h) == h * DRIVE_SPEED

\* getRouteTime adding the whole driving time to the rest days.
getRouteTimeNoRemainder(distance) ==
  LET driverTime == distance
      fullDay == driverTime \div Hours(8)
  IN  fullDay * Hours(24) + driverTime

getRouteTime(distance) ==
  LET driverTime == distance        \* distance / DRIVE_SPEED hours
      fullDay == driverTime \div Hours(8)
      lasyTime == driverTime % Hours(8)
  IN  fullDay * Hours(24) + lasyTime

\* ---- fitness ------------------------------------------------------------
\* individual[i] === 0 (undefined past the end is not 0)
IsZeroAt(individual, idx) == idx < Len(individual) /\ individual[idx + 1] = 0

\* The scanning loop of getFitness, from i on.
RECURSIVE ScanRoutes(_, _, _, _)
ScanRoutes(individual, idx, warehouseIdx, routes) ==
  IF ~(idx < individualNum)
  THEN [routes |-> routes, warehouseIdx |-> warehouseIdx]
  ELSE IF IsZeroAt(individual, idx)
       THEN LET route == Slice(individual, warehouseIdx + 1, idx)
            IN  ScanRoutes(individual, idx + 1, idx,
                           IF Len(route) > 0 THEN Append(routes, route)
                                             ELSE routes)
       ELSE ScanRoutes(individual, idx + 1, warehouseIdx, routes)

\* The routes getFitness splits an individual into.
DecodeRoutes(individual) ==
  LET scan == ScanRoutes(individual, 0, -1, <<>>)
      route == Slice(individual, scan.warehouseIdx + 1, Len(individual))
  IN  IF scan.warehouseIdx # individualNum - 1 /\ Len(route) > 0
      THEN Append(scan.routes, route)
      ELSE scan.routes

getFitness(individual) ==
  LET routes == DecodeRoutes(individual)
      distances == [k \in 1..Len(routes) |-> getRouteDistance(routes[k])]
      totalDistance == SumSeq(distances)
      totalTime == RadashMax([k \in 1..Len(routes) |->
                                getRouteTime(distances[k])])
      \* cost * DRIVE_SPEED * (weightTime + weightDistance)
      cost == weightTime * ToNumber(totalTime)
              + weightDistance * totalDistance * DRIVE_SPEED
  IN  [fitness |-> -cost, routes |-> routes,
       totalDistance |-> totalDistance, totalTime |-> totalTime]

Fitness(individual) == getFitness(individual).fitness

\* The getter's value for each individual of an array.
RECURSIVE FitnessKeys(_)
FitnessKeys(array) ==
  IF Len(array) = 0 THEN <<>>
  ELSE <<Fitness(Head(array))>> \o FitnessKeys(Tail(array))

\* ---- population ---------------------------------------------------------
\* The array initPopulation shuffles for a solver with n stops.
InitialArrangement(n) ==
  Range(1, n) \o RangeValue(1, driverNum - 1, 0)

initPopulation(n) == [1..individualNum -> Shuffle(InitialArrangement(n))]

\* select() sorting ascending (the desc flag left out).
selectAscending ==
  SubSeq(SortDesc(population,
                  [k \in 1..Len(population) |-> -Fitness(population[k])]),
         1, Min(selectedNum, Len(population)))

\* select() slicing the population without ranking it.
selectUnsorted == SubSeq(population, 1, Min(selectedNum, Len(population)))

select == SubSeq(SortDesc(population, FitnessKeys(population)), 1,
                 Min(selectedNum, Len(population)))

\* mutation()'s loop stopping one pass early.
MutationCountShort ==
  IF individualNum - selectedNum - 1 > 0 THEN individualNum - selectedNum - 1
  ELSE 0

\* Number of passes of mutation()'s loop.
MutationCount ==
  IF individualNum - selectedNum > 0 THEN individualNum - selectedNum ELSE 0

\* The arrays mutation() may return: each entry a shuffle of a drawn one.
mutation ==
  [1..MutationCount ->
     UNION {Shuffle(population[k]) : k \in 1..Len(population)}]

\* ---- solve --------------------------------------------------------------
\* RouteResult reporting the raw driving time as the elapsed time.
RouteResultRawTime(route) ==
  LET distance == getRouteDistance(route)
      indices == <<0>> \o route \o <<0>>
  IN  [distance |-> distance,
       driveTime |-> distance,
       time |-> distance,
       indices |-> indices,
       paths |-> [k \in 1..Len(indices) |-> coords[indices[k] + 1]]]

\* The VRPRoute built for one route of the best individual (googleMapUrl
\* is a rendering of paths and is left out).
RouteResult(route) ==
  LET distance == getRouteDistance(route)
      indices == <<0>> \o route \o <<0>>
  IN  [distance |-> distance,
       driveTime |-> distance,      \* distance / DRIVE_SPEED hours
       time |-> getRouteTime(distance),
       indices |-> indices,
       paths |-> [k \in 1..Len(indices) |-> coords[indices[k] + 1]]]

\* results[0] of solve()
BestIndividual == SortDesc(population, FitnessKeys(population))[1]

\* solve()'s loop running one pass too many.
LoopContinuesInclusive == i <= iterNum

\* i < this.iterNum
LoopContinues == i < iterNum

SolveResult ==
  LET best == getFitness(BestIndividual)
  IN  [routes |-> [k \in 1..Len(best.routes) |-> RouteResult(best.routes[k])],
       totalDistance |-> best.totalDistance,
       totalTime |-> best.totalTime]

\* ---- the worker: generate() --------------------------------------------
Modes == {"TimeOptimized", "DistanceOptimized", "Balance"}

\* new VRPSolver(warehouse, stops)
InitSolver ==
  /\ pc = "constructed"
  /\ \E n \in 0..MaxStops : stops = [k \in 1..n |-> warehouse + k * StopSpacing]
  /\ weightTime = 1
  /\ weightDistance = 1
  /\ population \in initPopulation(Len(stops))
  /\ i = 0
  /\ result = <<>>

\* The mode branch of generate() and the entry of solve().
SetWeights(mode) ==
  /\ pc = "constructed"
  /\ weightTime' = IF mode = "TimeOptimized" THEN 100 ELSE 1
  /\ weightDistance' = IF mode = "DistanceOptimized" THEN 100 ELSE 1
  /\ pc' = "solve"
  /\ UNCHANGED <<stops, population, i, result>>

\* One pass of solve()'s loop: reproduce().
Reproduce ==
  /\ pc = "solve"
  /\ LoopContinues
  /\ LET selectedIndividuals == select
     IN  \E mutations \in mutation :
           population' = selectedIndividuals \o mutations
  /\ i' = i + 1
  /\ UNCHANGED <<pc, stops, weightTime, weightDistance, result>>

\* The rest of solve(): rank the final population and build the result.
Finish ==
  /\ pc = "solve"
  /\ ~LoopContinues
  /\ result' = SolveResult
  /\ pc' = "done"
  /\ UNCHANGED <<stops, weightTime, weightDistance, population, i>>

\* No message has reached the worker: there is no solver.
IdleSolver ==
  /\ pc = "idle"
  /\ stops = <<>>
  /\ weightTime = 1
  /\ weightDistance = 1
  /\ population = <<>>
  /\ i = 0
  /\ result = <<>>

\* ---- CoordInput ---------------------------------------------------------
InitCoord ==
  /\ longitude = 0
  /\ latitude = 0
  /\ longitudeType = "E"
  /\ latitudeType = "N"
  /\ emitted = <<>>

\* onChange?.({ longitude, latitude, ...newVal })
trigger(newVal) ==
  emitted' = << [longitude |-> IF "longitude" \in DOMAIN newVal
                                THEN newVal.longitude ELSE longitude,
                 latitude |-> IF "latitude" \in DOMAIN newVal
                               THEN newVal.latitude ELSE latitude] >>

changeLongitude(val) ==
  /\ longitude' = val
  /\ trigger([longitude |-> IF longitudeType = "E" THEN val ELSE -val])
  /\ UNCHANGED <<latitude, longitudeType, latitudeType>>

changeLatitude(val) ==
  /\ latitude' = val
  /\ trigger([latitude |-> IF latitudeType = "N" THEN val ELSE -val])
  /\ UNCHANGED <<longitude, longitudeType, latitudeType>>

\* A Select reports a change only when another option is picked.
changeLongitudeType(val) ==
  /\ val # longitudeType
  /\ longitudeType' = val
  /\ trigger([longitude |-> IF val = "E" THEN longitude ELSE -longitude])
  /\ UNCHANGED <<longitude, latitude, latitudeType>>

changeLatitudeType(val) ==
  /\ val # latitudeType
  /\ latitudeType' = val
  /\ trigger([latitude |-> IF val = "N" THEN latitude ELSE -latitude])
  /\ UNCHANGED <<longitude, latitude, longitudeType>>

\* ---- getRouteTime on its own -------------------------------------------
InitTime ==
  /\ tDistance \in 0..MaxDistance
  /\ tElapsed = <<>>

IdleTime ==
  /\ tDistance = 0
  /\ tElapsed = <<>>

CallRouteTime ==
  /\ tElapsed = <<>>
  /\ tElapsed' = <<getRouteTime(tDistance)>>
  /\ UNCHANGED tDistance

\* ---- specifications -----------------------------------------------------
Init == InitSolver /\ InitCoord /\ IdleTime

Next ==
  \/ (\E mode \in Modes : SetWeights(mode)) /\ UNCHANGED <<coordVars, timeVars>>
  \/ Reproduce /\ UNCHANGED <<coordVars, timeVars>>
  \/ Finish /\ UNCHANGED <<coordVars, timeVars>>

Spec == Init /\ [][Next]_vars

InitCoordSpec == IdleSolver /\ InitCoord /\ IdleTime

NextCoord ==
  \/ (\E val \in 0..MaxMagnitude : changeLongitude(val))
       /\ UNCHANGED <<solverVars, timeVars>>
  \/ (\E val \in 0..MaxMagnitude : changeLatitude(val))
       /\ UNCHANGED <<solverVars, timeVars>>
  \/ (\E val \in {"E", "W"} : changeLongitudeType(val))
       /\ UNCHANGED <<solverVars, timeVars>>
  \/ (\E val \in {"N", "S"} : changeLatitudeType(val))
       /\ UNCHANGED <<solverVars, timeVars>>

SpecCoord == InitCoordSpec /\ [][NextCoord]_vars

InitTimeSpec == IdleSolver /\ InitCoord /\ InitTime

NextTime == CallRouteTime /\ UNCHANGED <<solverVars, coordVars>>

SpecTime == InitTimeSpec /\ [][NextTime]_vars

\* ---- properties ---------------------------------------------------------
RECURSIVE Flatten(_)
Flatten(seqs) == IF Len(seqs) = 0 THEN <<>> ELSE Head(seqs) \o Flatten(Tail(seqs))

Occurrences(array, v) == Cardinality({k \in 1..Len(array) : array[k] = v})

StopCount == Len(stops)

Individuals == {population[k] : k \in 1..Len(population)}

MaxFitness(array) ==
  CHOOSE m \in {Fitness(array[k]) : k \in 1..Len(array)} :
    \A k \in 1..Len(array) : Fitness(array[k]) <= m

\* A step of the generational loop: one call of reproduce().
IsReproduceStep == pc = "solve" /\ pc' = "solve" /\ i' = i + 1

\* C1: in every generation, the routes decoded from every individual of
\* the population hold every stop index 1..N exactly once and never the
\* depot index 0.
C1_Coverage ==
  \A individual \in Individuals :
    LET visited == Flatten(DecodeRoutes(individual))
    IN  /\ Occurrences(visited, 0) = 0
        /\ \A stop \in 1..StopCount : Occurrences(visited, stop) = 1
        /\ Len(visited) = StopCount

\* C2: in every generation, every individual has length N + driverNum - 1,
\* holds every stop index 1..N exactly once and exactly driverNum - 1 zeros.
C2_Encoding ==
  \A individual \in Individuals :
    /\ Len(individual) = StopCount + driverNum - 1
    /\ \A stop \in 1..StopCount : Occurrences(individual, stop) = 1
    /\ Occurrences(individual, 0) = driverNum - 1

\* C3: across every call of reproduce() the best fitness of the population
\* never gets worse.
C3_Elitism ==
  [][IsReproduceStep => MaxFitness(population') >= MaxFitness(population)]_vars

\* A generation has been produced whose individuals differ in fitness and
\* whose last individual, a mutant, is strictly the best of it.
C3_Witness ==
  /\ pc = "solve"
  /\ i >= 1
  /\ Fitness(population[individualNum]) = MaxFitness(population)
  /\ \A k \in 1..(individualNum - 1) :
       Fitness(population[k]) < MaxFitness(population)

\* C4: after construction and after every reproduce() the population holds
\* exactly individualNum individuals.
C4_PopulationSize == Len(population) = individualNum

\* reproduce() has run iterNum times and the population has its full size.
C4_Witness ==
  pc = "solve" /\ i = iterNum /\ Len(population) = individualNum

\* C5: with no stops, solve() returns no routes, totalDistance 0 and
\* totalTime the number 0.
C5_EmptyStops ==
  (pc = "done" /\ StopCount = 0) =>
    /\ result.routes = <<>>
    /\ result.totalDistance = 0
    /\ result.totalTime = Number(0)

\* C6: in the value solve() returns, totalDistance is the sum of the
\* routes' distances and, when a route is returned, totalTime is the
\* largest of the routes' times.
C6_TotalsAgree ==
  pc = "done" =>
    LET n == Len(result.routes)
    IN  /\ result.totalDistance
             = SumSeq([k \in 1..n |-> result.routes[k].distance])
        /\ n > 0 =>
             /\ result.totalTime.kind = "number"
             /\ \E k \in 1..n : result.routes[k].time = result.totalTime.val
             /\ \A k \in 1..n : result.routes[k].time <= result.totalTime.val

\* solve() returned two routes, one of which takes rest days, so that the
\* elapsed times differ from each other and from the driving times.
C6_Witness ==
  /\ pc = "done"
  /\ Len(result.routes) = 2
  /\ result.routes[1].time # result.routes[2].time
  /\ \E k \in 1..2 : result.routes[k].time > result.routes[k].driveTime

\* C7: getRouteTime(d) is 24 * floor((d / 50) / 8) + ((d / 50) mod 8)
\* hours: with q the number of complete 8-hour shifts in d, 24 hours for
\* each and the rest of the drive one to one.  At exactly 8 hours of
\* driving (400 km) it is 24 hours, below that the driving time itself.
C7_RouteTime ==
  tElapsed # <<>> =>
    /\ \E q \in 0..tDistance :
         /\ q * 8 * DRIVE_SPEED <= tDistance
         /\ tDistance < (q + 1) * 8 * DRIVE_SPEED
         /\ tElapsed[1] = q * 24 * DRIVE_SPEED + (tDistance - q * 8 * DRIVE_SPEED)
    /\ tDistance = 8 * DRIVE_SPEED => tElapsed[1] = 24 * DRIVE_SPEED
    /\ tDistance < 8 * DRIVE_SPEED => tElapsed[1] = tDistance

\* getRouteTime returned 24 hours for a drive of exactly 8 hours.
C7_Witness ==
  /\ tDistance = 8 * DRIVE_SPEED
  /\ tElapsed = <<24 * DRIVE_SPEED>>

\* C8: after reproduce() the first selectedNum individuals of the new
\* population are selectedNum individuals of the previous one, unchanged,
\* and no individual of the previous population that was left out is
\* strictly fitter than one that was kept.
C8_SelectionKeepsTop ==
  [][IsReproduceStep =>
       \E kept \in [1..selectedNum -> 1..Len(population)] :
         /\ \A a, b \in 1..selectedNum : a # b => kept[a] # kept[b]
         /\ \A r \in 1..selectedNum : population'[r] = population[kept[r]]
         /\ \A j \in 1..Len(population) :
              (\A r \in 1..selectedNum : kept[r] # j) =>
                \A r \in 1..selectedNum :
                  Fitness(population[j]) <= Fitness(population[kept[r]])
    ]_vars

\* reproduce() has run and the survivors it kept differ in fitness from
\* each other and are fitter than the mutant behind them.
C8_Witness ==
  /\ pc = "solve"
  /\ i >= 1
  /\ Fitness(population[1]) > Fitness(population[selectedNum])
  /\ Fitness(population[selectedNum]) > Fitness(population[individualNum])

\* C9: solve() makes exactly iterNum calls of reproduce() and returns: i
\* never passes iterNum, while i < iterNum reproduce() has a population to
\* draw from and so an outcome, solve() returns with i = iterNum, and the
\* routes it returns are those decoded from an individual of the final
\* population whose fitness is the largest there.
C9_BudgetAndBest ==
  /\ i <= iterNum
  /\ (pc = "solve" /\ i < iterNum) => mutation # {}
  /\ pc = "done" =>
       /\ i = iterNum
       /\ \E individual \in Individuals :
            /\ Fitness(individual) = MaxFitness(population)
            /\ LET routes == DecodeRoutes(individual)
               IN  /\ Len(result.routes) = Len(routes)
                   /\ \A k \in 1..Len(routes) :
                        result.routes[k].indices
                          = <<0>> \o routes[k] \o <<0>>

\* solve() has returned from a final population whose individuals differ
\* in fitness.
C9_Witness ==
  /\ pc = "done"
  /\ i = iterNum
  /\ \E individual \in Individuals : Fitness(individual) < MaxFitness(population)

\* C10: the Coord last passed to onChange carries the entered magnitudes
\* with the signs of the selected hemispheres: longitude positive for E and
\* negative for W, latitude positive for N and negative for S.
C10_HemisphereSigns ==
  emitted # <<>> =>
    /\ emitted[1].longitude
         = (IF longitudeType = "E" THEN longitude ELSE -longitude)
    /\ emitted[1].latitude
         = (IF latitudeType = "N" THEN latitude ELSE -latitude)

====
